---- MODULE Spec2Model ----
(***************************************************************************)
(* The transmission replay of src/C/main.c: next_move scans the byte       *)
(* buffer for spans closed by YAHDLC_FLAG_SEQUENCE and hands each to the    *)
(* yahdlc decoder; main runs every decoded move through the three-slot     *)
(* window prev_moves (a move is applied when it is evicted, the window is   *)
(* cleared when its three slots are equal), flushes the window at the end  *)
(* of the input and prints the player's position.                          *)
(*                                                                         *)
(* yahdlc_get_data is a library outside the repository: its answer on a    *)
(* span (an error, a frame type, the first payload byte it leaves in        *)
(* iter.output) is a nondeterministic choice.  char is modelled as the      *)
(* signed 8-bit type it is on the usual x86 builds.  C indices start at 0: *)
(* data[i] of the source is data[i + 1] here.                              *)
(***************************************************************************)
EXTENDS Integers, Sequences, FiniteSets, TLC

\* ------------------------------------------------------------- bounds
\* Longest transmission file (bytes) of the general specification.
MaxDataLen == 6
\* Number of minimal frames in the buffer of the filter specification.
MaxFrames == 6
\* Longest transmission file (bytes) of the grid specification.
MaxGridDataLen == 4

\* Spans of the file whose runs are compared across starting positions.
MaxIndepFrames == 4

\* ---------------------------------------------------------- constants
YAHDLC_FLAG_SEQUENCE == 126

\* Some byte that is not the flag sequence.
OtherByte == 0

\* The bytes a file is made of, as far as next_move tells them apart.
FileBytes == {YAHDLC_FLAG_SEQUENCE, OtherByte}

\* First payload bytes the decoder may leave in iter.output[0]: the four
\* directions, an unrecognized code that stays positive as a char (0), one
\* that becomes negative (254) and the one that becomes -1 (255).
MoveBytes == {0, 1, 2, 3, 4, 254, 255}

\* The payload bytes of the filter specification.
FilterBytes == {1, 2, 3, 255}

\* The payload bytes of the runs specification: Up, Down, Right, Left.
DirectionBytes == {1, 2, 3, 4}

\* Negative returns of yahdlc_get_data.
ErrRets == {-2, -1}

VARIABLES
    data,        \* buffer: the bytes of the file (iter.data, iter.data_len = Len(data))
    start,       \* iter.start
    end,         \* iter.end
    output0,     \* iter.output[0]
    prev_idx,    \* main: prev_idx
    prev_moves,  \* main: prev_moves[0..2]
    player,      \* main: player, [x, y]
    i,           \* main: i of the flush loop
    pc,          \* where the run is: "next_move", "loop_body", "flush", "done", "exit"
    stdout,      \* the lines printed so far
    frames,      \* history: what the decoder answered on each span so far:
                 \*   ret, frame (0 a data frame, 1 any other), out (output[0])
    applied,     \* history: the moves passed to update_player so far
    before,      \* history: the player before the last call of update_player
    spans,       \* history: the <<start, end>> of each span given to the decoder
    slot_at,     \* history: for each slot of prev_moves, which move (1 the first
                 \*   decoded, 2 the second, ...) was last stored in it, 0 when
                 \*   none was since the window was last reset
    applied_at,  \* history: which move each entry of applied is
    discarded    \* history: the moves reset as three in a row of one code

vars == <<data, start, end, output0, prev_idx, prev_moves, player, i, pc,
          stdout, frames, applied, before, spans, slot_at, applied_at, discarded>>

\* ------------------------------------------------------ pure functions

\* (char) b for a byte b: char is signed, 8 bits wide.
ToChar(b) == IF b > 127 THEN b - 256 ELSE b

\* Mutant of clamp: the upper bound is forgotten.
clamp_NoMax(value, min, max) ==
    IF value < min THEN min ELSE value

\* Mutant of clamp: the board wraps around.
clamp_Wrap(value, min, max) ==
    IF value < min THEN max
    ELSE IF value > max THEN min
    ELSE value

clamp(value, min, max) ==
    IF value < min THEN min
    ELSE IF value > max THEN max
    ELSE value

\* Mutant of update_player: the codes are taken as 0..3 instead of 1..4.
update_player_ZeroBased(p, move) ==
    CASE move = 0 -> [p EXCEPT !.y = clamp(p.y - 1, 0, 4)]
      [] move = 1 -> [p EXCEPT !.y = clamp(p.y + 1, 0, 4)]
      [] move = 2 -> [p EXCEPT !.x = clamp(p.x + 1, 0, 4)]
      [] move = 3 -> [p EXCEPT !.x = clamp(p.x - 1, 0, 4)]
      [] OTHER -> p

update_player(p, move) ==
    CASE move = 1 -> [p EXCEPT !.y = clamp(p.y - 1, 0, 4)]
      [] move = 2 -> [p EXCEPT !.y = clamp(p.y + 1, 0, 4)]
      [] move = 3 -> [p EXCEPT !.x = clamp(p.x + 1, 0, 4)]
      [] move = 4 -> [p EXCEPT !.x = clamp(p.x - 1, 0, 4)]
      [] OTHER -> p

\* -1 is used to represent "no move".
NoMove == [k \in 0..2 |-> -1]

\* Mutant of three_in_a_row: only two of the slots are compared.
three_in_a_row_TwoSlots(pm) == pm[0] = pm[1]

\* int three_in_a_row of main.
three_in_a_row(pm) == (pm[0] = pm[1]) /\ (pm[0] = pm[2])

\* All byte sequences of length at most n over S.
SeqsUpTo(S, n) == UNION {[1..k -> S] : k \in 0..n}

\* A file of MaxFrames spans, the first of three bytes and the others of two:
\* the C indices 2, 4, 6, ... hold the flag.
DenseData ==
    [k \in 1..(2 * MaxFrames + 1) |->
        IF k > 1 /\ k % 2 = 1 THEN YAHDLC_FLAG_SEQUENCE ELSE OtherByte]

\* -------------------------------------------------------------- Init

\* Mutant of InitWith: the iterator starts with end = 0.
InitWith_EndZero(buffer, pos) ==
    /\ data = buffer
    /\ start = 0
    /\ end = 0
    /\ output0 = 0
    /\ prev_idx = 0
    /\ player = pos
    /\ prev_moves = [k \in 0..2 |-> -1]
    /\ i = 0
    /\ pc = "next_move"
    /\ stdout = <<>>
    /\ frames = <<>>
    /\ applied = <<>>
    /\ before = pos
    /\ spans = <<>>
    /\ slot_at = [k \in 0..2 |-> 0]
    /\ applied_at = <<>>
    /\ discarded = {}

\* main up to the while loop, on the file `buffer` starting at `pos`.
InitWith(buffer, pos) ==
    /\ data = buffer
    /\ start = 0
    /\ end = 1
    /\ output0 = 0
    /\ prev_idx = 0
    /\ player = pos
    /\ prev_moves = NoMove
    /\ i = 0
    /\ pc = "next_move"
    /\ stdout = <<>>
    /\ frames = <<>>
    /\ applied = <<>>
    /\ before = pos
    /\ spans = <<>>
    /\ slot_at = [k \in 0..2 |-> 0]
    /\ applied_at = <<>>
    /\ discarded = {}

StartPosition == [x |-> 0, y |-> 4]

Grid == [x : 0..4, y : 0..4]

Init == \E buffer \in SeqsUpTo(FileBytes, MaxDataLen) : InitWith(buffer, StartPosition)

\* ----------------------------------------------------------- next_move

AtFlag ==
    /\ pc = "next_move"
    /\ end < Len(data)
    /\ data[end + 1] = YAHDLC_FLAG_SEQUENCE

\* The byte at end is not the flag: end += 1.
NextMoveSkip ==
    /\ pc = "next_move"
    /\ end < Len(data)
    /\ data[end + 1] # YAHDLC_FLAG_SEQUENCE
    /\ end' = end + 1
    /\ UNCHANGED <<data, start, output0, prev_idx, prev_moves, player, i, pc,
                   stdout, frames, applied, before, spans, slot_at, applied_at,
                   discarded>>

\* Mutant of NextMoveError: the error is printed and the scan goes on with the
\* next span.
NextMoveError_Resync ==
    /\ AtFlag
    /\ \E ret \in ErrRets :
        /\ stdout' = Append(stdout, <<"yahdlc error", ret>>)
        /\ frames' = Append(frames, [ret |-> ret, frame |-> 0, out |-> 0])
    /\ start' = end + 1
    /\ end' = end + 2
    /\ spans' = Append(spans, <<start, end>>)
    /\ UNCHANGED <<data, output0, prev_idx, prev_moves, player, i, pc, applied,
                   before, slot_at, applied_at, discarded>>

\* The decoder returns ret < 0: the error is printed and the process exits.
NextMoveError ==
    /\ AtFlag
    /\ \E ret \in ErrRets :
        /\ stdout' = Append(stdout, <<"yahdlc error", ret>>)
        /\ frames' = Append(frames, [ret |-> ret, frame |-> 0, out |-> 0])
    /\ pc' = "exit"
    /\ spans' = Append(spans, <<start, end>>)
    /\ UNCHANGED <<data, start, end, output0, prev_idx, prev_moves, player, i,
                   applied, before, slot_at, applied_at, discarded>>

\* Mutant of NextMoveControl: the frame type is not looked at, 1 is returned.
NextMoveControl_Returns ==
    /\ AtFlag
    /\ frames' = Append(frames, [ret |-> 0, frame |-> 1, out |-> 0])
    /\ start' = end + 1
    /\ end' = end + 2
    /\ pc' = "loop_body"
    /\ spans' = Append(spans, <<start, end>>)
    /\ UNCHANGED <<data, output0, prev_idx, prev_moves, player, i, stdout,
                   applied, before, slot_at, applied_at, discarded>>

\* Mutant of NextMoveControl: continue before the cursor is moved.
NextMoveControl_NoAdvance ==
    /\ AtFlag
    /\ frames' = Append(frames, [ret |-> 0, frame |-> 1, out |-> 0])
    /\ spans' = Append(spans, <<start, end>>)
    /\ UNCHANGED <<data, start, end, output0, prev_idx, prev_moves, player, i, pc,
                   stdout, applied, before, slot_at, applied_at, discarded>>

\* The decoder succeeds and control->frame != 0: continue.
NextMoveControl ==
    /\ AtFlag
    /\ frames' = Append(frames, [ret |-> 0, frame |-> 1, out |-> 0])
    /\ start' = end + 1
    /\ end' = end + 2
    /\ spans' = Append(spans, <<start, end>>)
    /\ UNCHANGED <<data, output0, prev_idx, prev_moves, player, i, pc, stdout,
                   applied, before, slot_at, applied_at, discarded>>

\* Mutant of NextMoveData: after a data frame end is moved by one only.
NextMoveData_EndPlusOne(Bytes) ==
    /\ AtFlag
    /\ \E b \in Bytes :
        /\ output0' = b
        /\ frames' = Append(frames, [ret |-> 0, frame |-> 0, out |-> b])
    /\ start' = end + 1
    /\ end' = end + 1
    /\ pc' = "loop_body"
    /\ spans' = Append(spans, <<start, end>>)
    /\ UNCHANGED <<data, prev_idx, prev_moves, player, i, stdout, applied, before,
                   slot_at, applied_at, discarded>>

\* The decoder succeeds on a data frame: return 1, the move is iter.output[0],
\* whichever byte the decoder wrote or left there.
NextMoveData(Bytes) ==
    /\ AtFlag
    /\ \E b \in Bytes :
        /\ output0' = b
        /\ frames' = Append(frames, [ret |-> 0, frame |-> 0, out |-> b])
    /\ start' = end + 1
    /\ end' = end + 2
    /\ pc' = "loop_body"
    /\ spans' = Append(spans, <<start, end>>)
    /\ UNCHANGED <<data, prev_idx, prev_moves, player, i, stdout, applied, before,
                   slot_at, applied_at, discarded>>

\* end has reached data_len: return 0, main leaves its while loop.
NextMoveEmpty ==
    /\ pc = "next_move"
    /\ ~(end < Len(data))
    /\ pc' = "flush"
    /\ UNCHANGED <<data, start, end, output0, prev_idx, prev_moves, player, i,
                   stdout, frames, applied, before, spans, slot_at, applied_at,
                   discarded>>

\* ---------------------------------------------------------------- main

\* Mutant of StoreMove: on three in a row only the two other slots are reset.
StoreMove_ResetsOthers(pm, idx, move) ==
    LET stored == [pm EXCEPT ![idx] = move]
    IN  IF three_in_a_row(stored)
            THEN [k \in 0..2 |-> IF k = idx THEN move ELSE -1]
            ELSE stored

\* prev_moves after the body of the while loop has stored `move` at idx.
StoreMove(pm, idx, move) ==
    LET stored == [pm EXCEPT ![idx] = move]
    IN  IF three_in_a_row(stored) THEN NoMove ELSE stored

Last(seq) == seq[Len(seq)]

\* The decoder's answers that were data frames, in order.
DataFrames == SelectSeq(frames, LAMBDA f : f.ret = 0 /\ f.frame = 0)

\* How many moves next_move has returned so far.
Arrived == Len(DataFrames)

\* The state main keeps between moves.
MainState == [pm |-> prev_moves, idx |-> prev_idx, pos |-> player, app |-> applied]

\* Mutant of Body: a direction that would leave the player where it is (a
\* clamped move) is not stored in the window.
Body_DropsClampedMove(st, b) ==
    LET old_move == ToChar(st.pm[st.idx] % 256)
        move == ToChar(b)
        clamped == move \in 1..4 /\ update_player(st.pos, move) = st.pos
    IN  [pm  |-> IF clamped THEN st.pm ELSE StoreMove(st.pm, st.idx, move),
         idx |-> (st.idx + 1) % 3,
         pos |-> IF old_move # -1 THEN update_player(st.pos, old_move) ELSE st.pos,
         app |-> IF old_move # -1 THEN Append(st.app, old_move) ELSE st.app]

\* Mutant of Body: a completed triple takes back the move popped in the same
\* step.
Body_TakesBack(st, b) ==
    LET old_move == ToChar(st.pm[st.idx] % 256)
        move == ToChar(b)
        stored == [st.pm EXCEPT ![st.idx] = move]
        keep == old_move # -1 /\ ~three_in_a_row(stored)
    IN  [pm  |-> IF three_in_a_row(stored) THEN NoMove ELSE stored,
         idx |-> (st.idx + 1) % 3,
         pos |-> IF keep THEN update_player(st.pos, old_move) ELSE st.pos,
         app |-> IF keep THEN Append(st.app, old_move) ELSE st.app]

\* Mutant of Body: the cursor wraps at 2 instead of 3.
Body_WrapsAtTwo(st, b) ==
    LET old_move == ToChar(st.pm[st.idx] % 256)
        move == ToChar(b)
    IN  [pm  |-> StoreMove(st.pm, st.idx, move),
         idx |-> (st.idx + 1) % 2,
         pos |-> IF old_move # -1 THEN update_player(st.pos, old_move) ELSE st.pos,
         app |-> IF old_move # -1 THEN Append(st.app, old_move) ELSE st.app]

\* The body of the while loop on the state st, output[0] being the byte b:
\* the oldest move is popped and applied if it exists, then b is stored.
Body(st, b) ==
    LET old_move == ToChar(st.pm[st.idx] % 256)
        move == ToChar(b)
    IN  [pm  |-> StoreMove(st.pm, st.idx, move),
         idx |-> (st.idx + 1) % 3,
         pos |-> IF old_move # -1 THEN update_player(st.pos, old_move) ELSE st.pos,
         app |-> IF old_move # -1 THEN Append(st.app, old_move) ELSE st.app]

\* Mutant of LoopBody: the incoming move is applied as it arrives, the window
\* only serves to find three in a row.
LoopBody_NoLag ==
    /\ pc = "loop_body"
    /\ LET move == ToChar(output0)
           stored == [prev_moves EXCEPT ![prev_idx] = move]
           others == {slot_at[k] : k \in (0..2) \ {prev_idx}}
       IN  /\ player' = update_player(player, move)
           /\ applied' = Append(applied, move)
           /\ applied_at' = Append(applied_at, Arrived)
           /\ before' = player
           /\ prev_moves' = StoreMove(prev_moves, prev_idx, move)
           /\ IF three_in_a_row(stored)
                  THEN /\ slot_at' = [k \in 0..2 |-> 0]
                       /\ discarded' = IF stored[0] # -1
                                           THEN discarded \cup others \cup {Arrived}
                                           ELSE discarded
                  ELSE /\ slot_at' = [slot_at EXCEPT ![prev_idx] = Arrived]
                       /\ discarded' = discarded
    /\ prev_idx' = (prev_idx + 1) % 3
    /\ pc' = "next_move"
    /\ UNCHANGED <<data, start, end, output0, i, stdout, frames, spans>>

\* The body of the while loop after next_move returned 1.
LoopBody ==
    /\ pc = "loop_body"
    /\ LET st == Body(MainState, output0)
       IN  /\ prev_moves' = st.pm
           /\ prev_idx' = st.idx
           /\ player' = st.pos
           /\ applied' = st.app
           /\ before' = IF st.app # applied THEN player ELSE before
           /\ applied_at' = IF st.app # applied
                                THEN Append(applied_at, slot_at[prev_idx])
                                ELSE applied_at
    /\ LET stored == [prev_moves EXCEPT ![prev_idx] = ToChar(output0)]
           others == {slot_at[k] : k \in (0..2) \ {prev_idx}}
       IN  IF three_in_a_row(stored)
               THEN /\ slot_at' = [k \in 0..2 |-> 0]
                    /\ discarded' = IF stored[0] # -1
                                        THEN discarded \cup others \cup {Arrived}
                                        ELSE discarded
               ELSE /\ slot_at' = [slot_at EXCEPT ![prev_idx] = Arrived]
                    /\ discarded' = discarded
    /\ pc' = "next_move"
    /\ UNCHANGED <<data, start, end, output0, i, stdout, frames, spans>>

\* One iteration of the loop that gets the rest of the old moves, on st.
Flush(st) ==
    LET move == ToChar(st.pm[st.idx] % 256)
    IN  [pm  |-> st.pm,
         idx |-> (st.idx + 1) % 3,
         pos |-> IF move # -1 THEN update_player(st.pos, move) ELSE st.pos,
         app |-> IF move # -1 THEN Append(st.app, move) ELSE st.app]

FlushStep ==
    /\ pc = "flush"
    /\ i < 3
    /\ LET st == Flush(MainState)
       IN  /\ prev_idx' = st.idx
           /\ player' = st.pos
           /\ applied' = st.app
           /\ before' = IF st.app # applied THEN player ELSE before
           /\ applied_at' = IF st.app # applied
                                THEN Append(applied_at, slot_at[prev_idx])
                                ELSE applied_at
    /\ i' = i + 1
    /\ UNCHANGED <<data, start, end, output0, prev_moves, pc, stdout, frames,
                   spans, slot_at, discarded>>

\* Report the answer and return 0.
Report ==
    /\ pc = "flush"
    /\ ~(i < 3)
    /\ stdout' = Append(stdout, <<"Player position is at", player.x, player.y>>)
    /\ pc' = "done"
    /\ UNCHANGED <<data, start, end, output0, prev_idx, prev_moves, player, i,
                   frames, applied, before, spans, slot_at, applied_at, discarded>>

\* ---------------------------------------------------------- specifications

NextOver(Bytes) ==
    \/ NextMoveSkip
    \/ NextMoveError
    \/ NextMoveControl
    \/ NextMoveData(Bytes)
    \/ NextMoveEmpty
    \/ LoopBody
    \/ FlushStep
    \/ Report

Next == NextOver(MoveBytes)

\* Any transmission file of at most MaxDataLen bytes.
Spec == Init /\ [][Next]_vars

\* The same runs, which do not stop while a step is possible: the program is
\* sequential code that keeps running.
SpecFair == Init /\ [][Next]_vars /\ WF_vars(Next)

\* The file of MaxFrames shortest spans, payload bytes from FilterBytes: the
\* runs that feed the main loop up to MaxFrames moves.
InitFilter == InitWith(DenseData, StartPosition)

NextFilter == NextOver(FilterBytes)

SpecFilter == InitFilter /\ [][NextFilter]_vars

\* The same file, every payload byte a direction.
NextRuns == NextOver(DirectionBytes)

SpecRuns == InitFilter /\ [][NextRuns]_vars

\* The run from any position of the board (each is reached by some longer
\* file), on any file of at most MaxGridDataLen bytes.
InitGrid ==
    \E buffer \in SeqsUpTo(FileBytes, MaxGridDataLen), pos \in Grid :
        InitWith(buffer, pos)

SpecGrid == InitGrid /\ [][Next]_vars

\* The first MaxIndepFrames spans of that file, the run starting from any
\* position of the board.
InitIndep ==
    \E pos \in Grid :
        InitWith(SubSeq(DenseData, 1, 2 * MaxIndepFrames + 1), pos)

SpecIndep == InitIndep /\ [][NextFilter]_vars

\* ------------------------------------------------------------- histories

\* The decoded moves so far, as the chars the main loop makes of them.
Decoded == [k \in 1..Len(DataFrames) |-> ToChar(DataFrames[k].out)]

\* k copies of the code c.
Copies(c, k) == [j \in 1..k |-> c]

\* The reference filter: scan seq left to right and remove every group of three
\* consecutive identical codes as soon as the third arrives.  n counts the
\* copies of the current code that arrived since the last removal.
RECURSIVE ReferenceFrom(_, _, _, _)
ReferenceFrom(seq, k, out, n) ==
    IF k > Len(seq) THEN out
    ELSE LET c == seq[k]
             same == k > 1 /\ seq[k - 1] = c
         IN  IF same /\ n = 2
                 THEN ReferenceFrom(seq, k + 1, SubSeq(out, 1, Len(out) - 2), 0)
             ELSE IF same
                 THEN ReferenceFrom(seq, k + 1, Append(out, c), n + 1)
             ELSE ReferenceFrom(seq, k + 1, Append(out, c), 1)

Reference(seq) == ReferenceFrom(seq, 1, <<>>, 0)

\* seq holds three consecutive identical codes somewhere.
HasTriple(seq) ==
    \E k \in 1..(Len(seq) - 2) : seq[k] = seq[k + 1] /\ seq[k] = seq[k + 2]

\* ----------------------------------------------------------------- claims

\* C1: for every finite sequence of decoded move codes fed to the main loop and
\* followed by the flush, the moves passed to update_player are those the
\* reference filter leaves (every group of three consecutive identical codes
\* removed when its third arrives), in arrival order.
C1_AppliedIsReference ==
    pc = "done" => applied = Reference(Decoded)

\* C1 where no decoded byte is 0xFF, the byte whose char is the "no move" -1.
C1_AppliedIsReferenceWithoutFF ==
    (pc = "done" /\ \A k \in 1..Len(Decoded) : Decoded[k] # -1)
        => applied = Reference(Decoded)

\* C2: an input of k identical direction codes, from an empty window, applies
\* 0 moves for k = 3, 1 for k = 4, 2 for k = 5 and 0 for k = 6.
C2_RunOfIdenticalMoves ==
    pc = "done" =>
        \A d \in 1..4 :
            /\ Decoded = Copies(d, 3) => applied = <<>>
            /\ Decoded = Copies(d, 4) => applied = <<d>>
            /\ Decoded = Copies(d, 5) => applied = <<d, d>>
            /\ Decoded = Copies(d, 6) => applied = <<>>

C2_Witness ==
    /\ pc = "done"
    /\ Decoded = Copies(4, 5)
    /\ applied = <<4, 4>>

\* C3: from (0,4) and an empty window the moves Right, Right, Up, Up, Up, Down
\* apply exactly Right, Right, Down, in that order, and end at (2,4).
C3_EndToEnd ==
    (pc = "done" /\ Decoded = <<3, 3, 1, 1, 1, 2>>) =>
        /\ applied = <<3, 3, 2>>
        /\ player = [x |-> 2, y |-> 4]
        /\ stdout = <<(<<"Player position is at", 2, 4>>)>>

C3_Witness ==
    /\ pc = "done"
    /\ Decoded = <<3, 3, 1, 1, 1, 2>>
    /\ player = [x |-> 2, y |-> 4]

\* C4: in every reachable state the player is on the board, 0 <= x <= 4 and
\* 0 <= y <= 4, whatever codes (unrecognized ones too) have been applied.
C4_PlayerOnBoard ==
    /\ player.x \in 0..4
    /\ player.y \in 0..4

C4_Witness ==
    /\ applied = <<-2, 2>>
    /\ before = StartPosition
    /\ player = StartPosition

\* C5: a move that would leave the board (Up at y=0, Down at y=4, Left at x=0,
\* Right at x=4) leaves both coordinates unchanged; every other direction move
\* changes its one coordinate by exactly 1 and leaves the other unchanged.
C5_OffBoardMoveDiscarded ==
    applied # <<>> =>
        LET m == Last(applied)
            p == before
            off == \/ m = 1 /\ p.y = 0
                   \/ m = 2 /\ p.y = 4
                   \/ m = 3 /\ p.x = 4
                   \/ m = 4 /\ p.x = 0
        IN  /\ off => player = p
            /\ (m = 1 /\ ~off) => player = [p EXCEPT !.y = p.y - 1]
            /\ (m = 2 /\ ~off) => player = [p EXCEPT !.y = p.y + 1]
            /\ (m = 3 /\ ~off) => player = [p EXCEPT !.x = p.x + 1]
            /\ (m = 4 /\ ~off) => player = [p EXCEPT !.x = p.x - 1]

C5_Witness ==
    /\ applied # <<>>
    /\ Last(applied) = 3
    /\ before.x = 4
    /\ player = before

\* C6: when the decoder reports an error the run ends there: no further span is
\* scanned, no further move is applied and the position line is never printed,
\* however many frames were decoded before.
PositionReported ==
    \E k \in 1..Len(stdout) : stdout[k][1] = "Player position is at"

DecodeFails == Len(frames') = Len(frames) + 1 /\ Last(frames').ret < 0

C6_DecodeErrorAborts ==
    [][/\ pc # "exit"
       /\ DecodeFails =>
            /\ pc' = "exit"
            /\ ~PositionReported'
            /\ UNCHANGED <<start, end, prev_idx, prev_moves, player, applied>>]_vars

C6_Witness ==
    /\ pc = "exit"
    /\ Len(applied) >= 1
    /\ end + 2 < Len(data)
    /\ ~PositionReported

\* C7: control frames are transparent: the moves applied, the window, the cursor
\* and the position are those of the same stream without its control frames.
DataBytes == [k \in 1..Len(DataFrames) |-> DataFrames[k].out]

RECURSIVE RunBody(_, _, _)
RunBody(st, bytes, n) ==
    IF n = 0 THEN st ELSE Body(RunBody(st, bytes, n - 1), bytes[n])

FreshMain == [pm |-> NoMove, idx |-> 0, pos |-> StartPosition, app |-> <<>>]

\* main's state after the while loop has taken the first n data frames alone.
AfterData(n) == RunBody(FreshMain, DataBytes, n)

C7_ControlFramesTransparent ==
    /\ pc = "next_move" => MainState = AfterData(Len(DataBytes))
    /\ pc = "loop_body" =>
            /\ Len(DataBytes) > 0
            /\ output0 = Last(DataBytes)
            /\ MainState = AfterData(Len(DataBytes) - 1)
    /\ pc = "done" =>
            LET final == Flush(Flush(Flush(AfterData(Len(DataBytes)))))
            IN  /\ player = final.pos
                /\ applied = final.app

C7_Witness ==
    /\ pc = "done"
    /\ applied # <<>>
    /\ \E k \in 2..(Len(frames) - 1) :
            /\ frames[k].frame = 1
            /\ frames[k - 1].frame = 0
            /\ frames[k + 1].frame = 0

\* C8: when the input holds no three consecutive identical codes, every input
\* move is applied exactly once, in arrival order.
C8_NoTripleAllApplied ==
    (pc = "done" /\ ~HasTriple(Decoded)) => applied = Decoded

\* C8 where no decoded byte is 0xFF.
C8_NoTripleAllAppliedWithoutFF ==
    (pc = "done" /\ ~HasTriple(Decoded) /\ \A k \in 1..Len(Decoded) : Decoded[k] # -1)
        => applied = Decoded

\* C9: a move code that is none of 1, 2, 3, 4 leaves the position unchanged and
\* is not an error: the run goes on and prints nothing.
C9_UnrecognizedCodeIsNoOp ==
    [][(applied' # applied /\ Last(applied') \notin 1..4) =>
            /\ player' = player
            /\ pc' \in {"next_move", "flush"}
            /\ stdout' = stdout]_vars

C9_Witness ==
    /\ pc = "done"
    /\ applied = <<0, -2>>
    /\ player = before

\* A step of the while loop whose incoming move makes the three slots hold the
\* same code, not the "no move" -1.
CompletesTriple ==
    /\ pc = "loop_body"
    /\ LET stored == [prev_moves EXCEPT ![prev_idx] = ToChar(output0)]
       IN  stored[0] = stored[1] /\ stored[0] = stored[2] /\ stored[0] # -1

Evicted == ToChar(prev_moves[prev_idx] % 256)

\* C10 as amended: when the incoming move completes a triple, the move evicted
\* from the overwritten slot in that step (if any) is applied to the grid as
\* usual, it is not taken back, and the window is reset to entirely empty.
C10_TripleKeepsEvictedMove ==
    [][CompletesTriple =>
            /\ prev_moves' = NoMove
            /\ IF Evicted # -1
                   THEN /\ applied' = Append(applied, Evicted)
                        /\ player' = update_player(player, Evicted)
                   ELSE /\ applied' = applied
                        /\ player' = player]_vars

C10_Witness ==
    /\ pc = "next_move"
    /\ Decoded = <<3, 3, 1, 1, 1>>
    /\ applied = <<3, 3>>
    /\ prev_moves = NoMove

\* C10 as stated: when the incoming move completes a triple, the move evicted
\* in that step is un-emitted (not applied) and the window is reset to empty.
C10_TripleTakesBackEvictedMove ==
    [][CompletesTriple => (applied' = applied /\ prev_moves' = NoMove)]_vars

\* ------------------------------------------------- which move is which

Range(seq) == {seq[k] : k \in 1..Len(seq)}

\* The position after the moves of seq, one call of update_player each.
RECURSIVE ApplyAll(_, _, _)
ApplyAll(p, seq, n) ==
    IF n = 0 THEN p ELSE update_player(ApplyAll(p, seq, n - 1), seq[n])

\* No decoded byte is 0xFF, the byte whose char is the "no move" -1.
WithoutFF == \A k \in 1..Len(Decoded) : Decoded[k] # -1

\* C11: no move of a discarded triple is ever applied: the discarded moves are
\* three consecutive arrivals of one code, none of them is among the moves
\* passed to update_player, and the position is the result of the applied
\* moves alone (nothing is rolled back).
C11_DiscardedTripleNeverApplied ==
    /\ \A k \in discarded :
            /\ k \notin Range(applied_at)
            /\ \E j \in (k - 2)..k :
                    /\ j >= 1
                    /\ j + 2 <= Arrived
                    /\ {j, j + 1, j + 2} \subseteq discarded
                    /\ Decoded[j] = Decoded[j + 1]
                    /\ Decoded[j] = Decoded[j + 2]
    /\ Len(applied_at) = Len(applied)
    /\ \A k \in 1..Len(applied) : applied[k] = Decoded[applied_at[k]]
    /\ player = ApplyAll(StartPosition, applied, Len(applied))

C11_Witness ==
    /\ pc = "done"
    /\ discarded = {3, 4, 5}
    /\ applied_at = <<1, 2, 6>>

\* C12: the flush reads exactly three slots from the cursor on and applies
\* every non-empty one, so that at normal termination every accepted move
\* outside a discarded triple has been applied exactly once.
TimesApplied(k) == Cardinality({j \in 1..Len(applied_at) : applied_at[j] = k})

C12_FlushAppliesEveryPendingMove ==
    pc = "done" =>
        /\ i = 3
        /\ \A k \in 1..Arrived : k \notin discarded => TimesApplied(k) = 1

\* C12 where no decoded byte is 0xFF.
C12_FlushAppliesEveryPendingMoveWithoutFF ==
    (pc = "done" /\ WithoutFF) =>
        /\ i = 3
        /\ \A k \in 1..Arrived : k \notin discarded => TimesApplied(k) = 1

\* C13, when a move is applied: never in the step in which it arrives; the
\* while loop applies, on the arrival of a move, the move that arrived three
\* before it, and the flush applies the others.
C13_AppliedThreeArrivalsLaterOrInFlush ==
    [][applied_at' # applied_at =>
            /\ pc \in {"loop_body", "flush"}
            /\ pc = "loop_body" => Last(applied_at') = Arrived - 3]_vars

\* C13: each accepted move that is not discarded is applied, either when the
\* third move after it arrives or during the flush, never as it arrives.
C13_EveryMoveAppliedWithLag ==
    [][/\ applied_at' # applied_at =>
            /\ pc \in {"loop_body", "flush"}
            /\ pc = "loop_body" => Last(applied_at') = Arrived - 3
       /\ pc' = "done" =>
            \A k \in 1..Arrived : k \notin discarded => k \in Range(applied_at')]_vars

\* The slot j places after the cursor: j = 0 is the next to be overwritten.
SlotFromCursor(j) == (prev_idx + j) % 3

\* The move that arrived as one of the last three: j = 0 the third last,
\* j = 2 the last.
RecentMove(j) == Arrived - 2 + j

\* C14 as amended: between filter steps the window holds, oldest at the
\* cursor, those of the 3 most recently received codes that arrived since the
\* window was last cleared (it is cleared whenever its three slots are equal,
\* so on every completed triple); a slot not stored since then holds -1 and
\* the empty slots are the ones nearest the cursor.
C14_WindowHoldsRecentSinceClear ==
    pc = "next_move" =>
        \A j \in 0..2 :
            LET k == SlotFromCursor(j)
            IN  /\ slot_at[k] \in {0, RecentMove(j)}
                /\ slot_at[k] = 0 => prev_moves[k] = -1
                /\ slot_at[k] # 0 =>
                        /\ prev_moves[k] = Decoded[slot_at[k]]
                        /\ \A h \in j..2 : slot_at[SlotFromCursor(h)] # 0

C14_Witness ==
    /\ pc = "next_move"
    /\ Decoded = <<3, 3, 1, 1, 1, 2>>
    /\ prev_idx = 0
    /\ prev_moves = [k \in 0..2 |-> IF k = 2 THEN 2 ELSE -1]

\* C14 as stated: between filter steps the window holds the 3 most recently
\* received codes, oldest at the cursor, -1 standing only for "no move yet".
C14_WindowHoldsThreeMostRecent ==
    pc = "next_move" =>
        \A j \in 0..2 :
            prev_moves[SlotFromCursor(j)] =
                IF RecentMove(j) >= 1 THEN Decoded[RecentMove(j)] ELSE -1

\* C15: every decoded byte, those outside 1..4 too, is stored in the slot at
\* the cursor as a present (non-empty) entry and takes part in the test for
\* three in a row like a direction code.
C15_EveryByteIsAPresentEntry ==
    [][pc = "loop_body" =>
            LET stored == [prev_moves EXCEPT ![prev_idx] = ToChar(output0)]
            IN  /\ stored[prev_idx] # -1
                /\ prev_moves' = IF three_in_a_row(stored) THEN NoMove ELSE stored]_vars

\* C15 for the unrecognized bytes other than 0xFF: each is a present entry,
\* three of one in a row are discarded, one between two moves of a direction
\* keeps them apart.
C15_UnrecognizedBytesOtherThanFF ==
    /\ (pc = "next_move" /\ Arrived > 0 /\ Last(Decoded) # -1) =>
            \/ prev_moves[(prev_idx + 2) % 3] = Last(Decoded)
            \/ Arrived \in discarded
    /\ \A u \in {0, -2} :
            /\ (pc = "done" /\ Decoded = <<u, u, u>>) =>
                    (applied = <<>> /\ discarded = {1, 2, 3})
            /\ (pc = "done" /\ Decoded = <<1, u, 1>>) =>
                    (applied = <<1, u, 1>> /\ discarded = {})

\* -------------------------------------------------------------- scanner

\* C16: the scan terminates on every finite buffer: every iteration of
\* next_move's loop makes end strictly larger, and once end is at or beyond
\* the buffer length next_move returns 0, now and ever after (the cursor stays,
\* no span is decoded, no move is returned).
C16_ScanTerminates ==
    /\ [][/\ (pc = "next_move" /\ end < Len(data) /\ pc' # "exit") => end' > end
          /\ (pc = "next_move" /\ ~(end < Len(data))) => pc' = "flush"
          /\ ~(end < Len(data)) =>
                (end' = end /\ frames' = frames /\ pc' # "loop_body")]_vars
    /\ <>(pc \in {"flush", "exit"})

C16_Witness ==
    /\ pc = "flush"
    /\ end = Len(data) + 1
    /\ Len(frames) >= 2
    /\ \E k \in 1..Len(data) : data[k] # YAHDLC_FLAG_SEQUENCE /\ k > 2

\* A step in which the decoder succeeded on the span that ends at end.
DecodeSucceeds ==
    AtFlag /\ Len(frames') = Len(frames) + 1 /\ Last(frames').ret = 0

\* C17: when the byte at end is not the flag, end moves by 1 and start stays;
\* when it is and the decoder succeeds, start becomes end + 1 and end becomes
\* end + 2, for data and control frames alike: the byte after a closing flag
\* is the first byte of the next span and is never tested.
C17_CursorSteps ==
    [][/\ (pc = "next_move" /\ end < Len(data)
                /\ data[end + 1] # YAHDLC_FLAG_SEQUENCE) =>
            (end' = end + 1 /\ start' = start)
       /\ DecodeSucceeds => (start' = end + 1 /\ end' = end + 2)
       /\ end' >= end
       /\ pc' = "next_move" => start' < end']_vars

C17_Witness ==
    /\ Len(spans) >= 2
    /\ frames[1].ret = 0 /\ frames[1].frame = 1
    /\ frames[2].ret = 0 /\ frames[2].frame = 0
    /\ spans[2][1] = spans[1][2] + 1
    /\ data[spans[2][1] + 1] = YAHDLC_FLAG_SEQUENCE
    /\ spans[1][2] > 1

\* C18: at every read of the buffer and every call of the decoder
\* 0 <= start < end < data_len: every span given to the decoder has at least 2
\* bytes and lies inside the buffer, the spans are disjoint and increasing, and
\* end never exceeds data_len + 1.
C18_ScannerBounds ==
    /\ (pc = "next_move" /\ end < Len(data)) => (0 <= start /\ start < end)
    /\ end <= Len(data) + 1
    /\ \A k \in 1..Len(spans) :
            /\ 0 <= spans[k][1]
            /\ spans[k][1] < spans[k][2]
            /\ spans[k][2] < Len(data)
            /\ spans[k][2] + 1 - spans[k][1] >= 2
    /\ \A k \in 1..(Len(spans) - 1) : spans[k][2] < spans[k + 1][1]

C18_Witness ==
    /\ Len(spans) >= 2
    /\ end = Len(data) + 1
    /\ spans[1][2] - spans[1][1] >= 2

\* ------------------------------------------------- filter and position

\* C19: what the filter does with the moves depends on the decoded codes only,
\* never on where the player is: from every starting position the window, the
\* cursor and the sequence of applied moves are those of the run that takes
\* the same codes from the starting corner, also when moves are clamped.
C19_FilterIgnoresPosition ==
    /\ pc = "next_move" =>
            /\ prev_moves = AfterData(Len(DataBytes)).pm
            /\ prev_idx = AfterData(Len(DataBytes)).idx
            /\ applied = AfterData(Len(DataBytes)).app
    /\ pc = "done" =>
            applied = Flush(Flush(Flush(AfterData(Len(DataBytes))))).app

\* From a starting position other than the corner: the one applied move was
\* clamped, and the three identical directions after it, which the edge would
\* clamp as well, were discarded as a triple.
C19_Witness ==
    /\ pc = "done"
    /\ Len(Decoded) = 4
    /\ discarded = {2, 3, 4}
    /\ applied = <<Decoded[1]>>
    /\ Decoded[2] \in 1..4
    /\ Decoded[1] # Decoded[2]
    /\ player = before
    /\ update_player(player, Decoded[2]) = player
    /\ player # StartPosition

====
